---- MODULE Spec2Model ----
(***************************************************************************)
(* The orbital simulation of SolarSystemCore: the Sun, the instanced       *)
(* orbiting bodies of <Planets>, the gravity pass run before every physics *)
(* step, the collision handler of the instanced bodies, the explosion list *)
(* and the trail store.                                                    *)
(*                                                                         *)
(* Units.  Lengths are whole world units.  Velocities are held in          *)
(* hundredths of a world unit per second; a division keeps the integer     *)
(* part of the quotient (floor), the fixed-point counterpart of the        *)
(* floating-point rounding of the program.  A scale is held in halves      *)
(* (Moon 5 -> 10, Earth 2.5 -> 5).  A mass is the cube of the collider     *)
(* radius: the ball collider of an instance has the radius of              *)
(* sphereGeometry (2) times the scale of the instance, the Sun's has       *)
(* SUN_RADIUS; the common factor 4/3*pi*density is dropped, it cancels in  *)
(* every comparison and weighted average the program computes.             *)
(*                                                                         *)
(* Math.random() is a nondeterministic choice; the values drawn by one     *)
(* call of createBodyData are one record of the set RespawnDraws.          *)
(***************************************************************************)
EXTENDS Integers, Sequences, FiniteSets, TLC

\* ------------------------------------------------------------------ bounds
Count == 4        \* orbiting bodies created by <Planets count=...>
NumKeys == 5      \* distinct values the random key suffix can take
MaxRespawns == 1  \* collisions resolved in one run
MaxFrames == 2    \* rendered frames in one run

\* --------------------------------------------------------------- constants
SPAWN_RADIUS == 250
SUN_RADIUS == 15
SUN_MASS == 199334
G_E15 == 66743            \* GRAVITATIONAL_CONSTANT * 10^15
SPEED_MULTIPLIER == 20000
TrailLimit == 300
MoonScale == 10
EarthScale == 5
GeometryRadius == 2

SunSlot == 0
Slots == 0 .. Count
Instances == 1 .. Count
Keys == 1 .. NumKeys
NoKey == 0
Zero3 == <<0, 0, 0>>
validDynamicTypes == {"Planet", "Moon", "Earth"}

\* ------------------------------------------------------------ Vector3 math
Add(a, b) == <<a[1] + b[1], a[2] + b[2], a[3] + b[3]>>

Sub(a, b) == <<a[1] - b[1], a[2] - b[2], a[3] - b[3]>>

MultiplyScalar(a, n, d) == <<(a[1] * n) \div d, (a[2] * n) \div d, (a[3] * n) \div d>>

LengthSq(a) == a[1] * a[1] + a[2] * a[2] + a[3] * a[3]

DistanceToSquared(a, b) == LengthSq(Sub(a, b))

RECURSIVE IsqrtBetween(_, _, _)
IsqrtBetween(n, lo, hi) ==
    IF lo >= hi THEN lo
    ELSE LET mid == (lo + hi + 1) \div 2 IN
         IF mid * mid <= n THEN IsqrtBetween(n, mid, hi)
         ELSE IsqrtBetween(n, lo, mid - 1)

Isqrt(n) == IsqrtBetween(n, 0, 40000)

Length(a) == Isqrt(LengthSq(a))

\* normalize(): a zero vector stays zero
Normalize(a, len) ==
    IF Length(a) = 0 THEN Zero3 ELSE MultiplyScalar(a, len, Length(a))

CrossWithUp(a) == <<0 - a[3], 0, a[1]>>

\* ------------------------------------------------- initial-state generator
Cos4(q) == CASE q = 0 -> 1 [] q = 1 -> 0 [] q = 2 -> 0 - 1 [] OTHER -> 0

Sin4(q) == CASE q = 0 -> 0 [] q = 1 -> 1 [] q = 2 -> 0 [] OTHER -> 0 - 1

\* d.theta: quarter turns; d.radius: floor(Math.random() * SPAWN_RADIUS);
\* d.y: floor(Math.random() * 10)
calculateInitialPosition(isEntry, d) ==
    LET radius == IF isEntry THEN (SPAWN_RADIUS * 3) \div 2
                  ELSE d.radius + SUN_RADIUS * 3
    IN <<Cos4(d.theta) * radius, d.y, Sin4(d.theta) * radius>>

\* sqrt(G * SUN_MASS / distance) * SPEED_MULTIPLIER, in hundredths: the
\* root of G_E15 * SUN_MASS / distance / (10^15 / (SPEED_MULTIPLIER * 100)^2)
SpeedDivisor ==
    1000000 \div (((SPEED_MULTIPLIER \div 100) * (SPEED_MULTIPLIER \div 100)) \div 10)

orbitalSpeed(distance) == Isqrt((G_E15 * (SUN_MASS \div SpeedDivisor)) \div distance)

calculateInitialVelocity(position, respawn) ==
    LET velocity == Normalize(CrossWithUp(position), orbitalSpeed(Length(position)))
    IN IF respawn THEN MultiplyScalar(velocity, 3, 4) ELSE velocity

\* createBodyData without the default of scale
createBodyData_noDefaultScale(options, d) ==
    LET position == calculateInitialPosition(options.respawn, d) IN
    [ key            |-> d.key,
      position       |-> position,
      linearVelocity |-> calculateInitialVelocity(position, options.respawn),
      scale          |-> options.scaleOverride,
      type           |-> IF options.typeOverride # "" THEN options.typeOverride ELSE "Planet" ]

\* createBodyData with a position drawn as for an initial body
createBodyData_notEntry(options, d) ==
    LET position == calculateInitialPosition(FALSE, d) IN
    [ key            |-> d.key,
      position       |-> position,
      linearVelocity |-> calculateInitialVelocity(position, options.respawn),
      scale          |-> IF options.scaleOverride # 0 THEN options.scaleOverride ELSE d.scale,
      type           |-> IF options.typeOverride # "" THEN options.typeOverride ELSE "Planet" ]

\* options: [respawn, typeOverride, scaleOverride]; "" and 0 stand for an
\* option that is not given
createBodyData(options, d) ==
    LET position == calculateInitialPosition(options.respawn, d) IN
    [ key            |-> d.key,
      position       |-> position,
      linearVelocity |-> calculateInitialVelocity(position, options.respawn),
      scale          |-> IF options.scaleOverride # 0 THEN options.scaleOverride ELSE d.scale,
      type           |-> IF options.typeOverride # "" THEN options.typeOverride ELSE "Planet" ]

\* ------------------------------------------------------------------- state
VARIABLES
    bodies,      \* world.bodies: slot -> rigid body (slot 0 is the Sun)
    explosions,  \* ExplosionProvider: the list of live explosions
    trails,      \* TrailProvider: key -> list of points
    pc,          \* position in the frame: "frame", "physics" or "events"
    frames,      \* frames rendered so far
    respawns,    \* collisions resolved so far
    last         \* the collision event handled last in this step, with the
                 \* state it was handled in

vars == <<bodies, explosions, trails, pc, frames, respawns, last>>

\* radius of the ball collider generated for the mesh of a body
ColliderRadius(b) == (b.geometry * b.scale) \div 2

\* RigidBody.mass(): the mass of the ball collider
Mass(b) == ColliderRadius(b) * ColliderRadius(b) * ColliderRadius(b)

isDynamic(b) == b.bodyType = "dynamic"

\* RigidBody.isSleeping(): the engine puts only resting bodies to sleep
isSleeping(b) == b.linvel = Zero3 /\ b.angvel = Zero3

\* <RigidBody userData={{ type: 'Sun' }} type="kinematicPosition">
Sun ==
    [ type |-> "Sun", key |-> NoKey, translation |-> Zero3, linvel |-> Zero3,
      angvel |-> Zero3, scale |-> 2, geometry |-> SUN_RADIUS,
      bodyType |-> "kinematicPosition" ]

\* the rigid body InstancedRigidBodies creates for one instance
InstanceBody(data, spin) ==
    [ type |-> data.type, key |-> data.key, translation |-> data.position,
      linvel |-> data.linearVelocity, angvel |-> <<0, spin, 0>>,
      scale |-> data.scale, geometry |-> GeometryRadius,
      bodyType |-> "dynamic" ]

\* the options of the i-th createBodyData call of initialInstances
InitialOptions(i) ==
    IF i = 1 THEN [respawn |-> FALSE, typeOverride |-> "Moon", scaleOverride |-> MoonScale]
    ELSE IF i = 2 THEN [respawn |-> FALSE, typeOverride |-> "Earth", scaleOverride |-> EarthScale]
    ELSE [respawn |-> FALSE, typeOverride |-> "Planet", scaleOverride |-> 0]

\* the random draws of the initial bodies: two samples of the draws, in
\* which the keys are pairwise distinct; in sample 0 all generic planets
\* have scale 0.5 and two draws of the angle agree, so that two bodies are
\* created in one place; in sample 1 the scales alternate between 1.0 and
\* 0.5 and the places differ
InitSamples == {0, 1}

InitialDraw(i, s) ==
    [ key    |-> i,
      theta  |-> IF s = 0 THEN i % 3 ELSE (i + s) % 4,
      radius |-> IF s = 0 THEN 0 ELSE SPAWN_RADIUS - 1,
      y      |-> IF s = 0 THEN 0 ELSE 9,
      scale  |-> IF s = 1 /\ i % 2 = 1 THEN 2 ELSE 1,
      spin   |-> IF i % 2 = 0 THEN 0 - 25 ELSE 24 ]

initialInstances(s) ==
    [ i \in Instances |-> createBodyData(InitialOptions(i), InitialDraw(i, s)) ]

\* the draws of one respawn: the new key, the angle and height of the new
\* position, the unused scale, the new spin and the ids of the explosions
\* (a sample: every key, with one of two settings of the other values)
RespawnDraws ==
    { IF k % 2 = 1
      THEN [key |-> k, theta |-> 0, radius |-> 17, y |-> 0, scale |-> 3,
            spin |-> 0 - 10, id1 |-> 1, id2 |-> 2]
      ELSE [key |-> k, theta |-> 1, radius |-> 200, y |-> 9, scale |-> 1,
            spin |-> 9, id1 |-> 2, id2 |-> 2]
      : k \in Keys }

NoTrails == [k \in {} |-> <<>>]

NoSnapshot == [bodies |-> <<>>, explosions |-> <<>>, trails |-> NoTrails]

\* the slot `last` names when it names no body
NoSlot == Count + 1

NoLast == [kind |-> "none", target |-> NoSlot, other |-> NoSlot, pre |-> NoSnapshot]

Init ==
    /\ \E s \in InitSamples :
         bodies = [ i \in Slots |->
                      IF i = SunSlot THEN Sun
                      ELSE InstanceBody(initialInstances(s)[i], InitialDraw(i, s).spin) ]
    /\ explosions = <<>>
    /\ trails = NoTrails
    /\ pc = "frame"
    /\ frames = 0
    /\ respawns = 0
    /\ last = NoLast

\* ------------------------------------------------------------ explosions
triggerExplosion(prev, position, lookAt, id) ==
    Append(prev, [position |-> position, lookAt |-> lookAt, id |-> id])

handleExplosionComplete(prev, id) == SelectSeq(prev, LAMBDA e : e.id # id)

\* ---------------------------------------------------------------- trails
\* addTrailPoint without the limit of the length
addTrailPoint_unlimited(prevTrails, key, position) ==
    LET newTrail == IF key \in DOMAIN prevTrails THEN prevTrails[key] ELSE <<>>
    IN IF newTrail = <<>> \/ DistanceToSquared(newTrail[Len(newTrail)], position) > 1
       THEN [ k \in DOMAIN prevTrails \cup {key} |->
                IF k = key THEN Append(newTrail, position) ELSE prevTrails[k] ]
       ELSE prevTrails

addTrailPoint(prevTrails, key, position) ==
    LET trail    == IF key \in DOMAIN prevTrails THEN prevTrails[key] ELSE <<>>
        newTrail == IF Len(trail) >= TrailLimit THEN Tail(trail) ELSE trail
    IN IF newTrail = <<>> \/ DistanceToSquared(newTrail[Len(newTrail)], position) > 1
       THEN [ k \in DOMAIN prevTrails \cup {key} |->
                IF k = key THEN Append(newTrail, position) ELSE prevTrails[k] ]
       ELSE prevTrails

clearTrail(prevTrails, key) == [ k \in DOMAIN prevTrails \ {key} |-> prevTrails[k] ]

\* planetsRef.current.forEach of useFrame, instances i .. Count
RECURSIVE recordTrails(_, _, _)
recordTrails(bs, trs, i) ==
    IF i > Count THEN trs
    ELSE recordTrails(bs, addTrailPoint(trs, bs[i].key, bs[i].translation), i + 1)

\* --------------------------------------------------------------- gravity
\* line 175: `currentBody.isSleeping` names the method and is not a call,
\* so the test is that of a function object, which is truthy
isSleepingProperty(b) == TRUE

currentBodySkipped(b) == isSleepingProperty(b) \/ ~isDynamic(b) \/ Mass(b) = 0

otherBodySkipped(current, other) ==
    current = other \/ isSleeping(other) \/ ~isDynamic(other) \/ Mass(other) = 0

\* G * m1 * m2 / (distance * SCALE_FACTOR)^2, in the mass unit of Mass and
\* so that an impulse divided by a mass is a velocity in hundredths
forceMagnitude(currentMass, otherMass, distanceSq) ==
    (28 * currentMass * otherMass) \div (10 * distanceSq)

\* the not-a-number of the program: a value no length, velocity or impulse
\* of the model takes
NaN == 0 - 999999999

\* pairImpulse without the test of line 190: at distance 0 the magnitude is
\* a division by zero, and the zero vector normalize() leaves times it is
\* not a number
pairImpulse_noDistanceTest(bs, c, o) ==
    LET distanceSq == DistanceToSquared(bs[c].translation, bs[o].translation) IN
    IF otherBodySkipped(bs[c], bs[o]) \/ c = o
    THEN Zero3
    ELSE IF distanceSq = 0 THEN <<NaN, NaN, NaN>>
    ELSE Normalize(Sub(bs[o].translation, bs[c].translation),
                   forceMagnitude(Mass(bs[c]), Mass(bs[o]), distanceSq))

\* the impulse the inner loop applies to bs[c] for the pair (c, o)
pairImpulse(bs, c, o) ==
    LET distanceSq == DistanceToSquared(bs[c].translation, bs[o].translation) IN
    IF otherBodySkipped(bs[c], bs[o]) \/ c = o \/ distanceSq = 0
    THEN Zero3
    ELSE Normalize(Sub(bs[o].translation, bs[c].translation),
                   forceMagnitude(Mass(bs[c]), Mass(bs[o]), distanceSq))

\* the impulses of the inner loop over the bodies o .. Count, summed
RECURSIVE impulseSum(_, _, _)
impulseSum(bs, c, o) ==
    IF o > Count THEN Zero3
    ELSE Add(pairImpulse(bs, c, o), impulseSum(bs, c, o + 1))

\* the bodies o for which the pass calls applyImpulse on bs[c]: those the
\* inner loop reaches and does not leave before line 194
impulseSources(bs, c) ==
    IF currentBodySkipped(bs[c]) THEN {}
    ELSE { o \in DOMAIN bs :
             /\ o # c
             /\ ~otherBodySkipped(bs[c], bs[o])
             /\ DistanceToSquared(bs[c].translation, bs[o].translation) # 0 }

\* RigidBody.applyImpulse
applyImpulse(b, impulse) ==
    [b EXCEPT !.linvel = Add(@, MultiplyScalar(impulse, 1, Mass(b)))]

\* the callback of useBeforePhysicsStep
useGravity(bs) ==
    [ c \in DOMAIN bs |->
        IF currentBodySkipped(bs[c]) THEN bs[c]
        ELSE applyImpulse(bs[c], impulseSum(bs, c, 0)) ]

\* the step of the physics engine: a dynamic body moves with its velocity,
\* a kinematic body only where it is told to
integrate(bs) ==
    [ i \in DOMAIN bs |->
        IF isDynamic(bs[i])
        THEN [bs[i] EXCEPT !.translation = Add(@, MultiplyScalar(bs[i].linvel, 1, 100))]
        ELSE bs[i] ]

\* ------------------------------------------------------------- collisions
\* a collision event names the instance the handler is called for (target)
\* and the body it touched (other); defect names what the event lacks
Defects ==
    { "none", "noManifold", "noTargetRigidBody", "noOtherRigidBody",
      "noTargetUserData", "noOtherUserData", "noContactPoint", "targetMassZero" }

\* every pair of bodies as a well-formed event; as malformed events, the
\* events of an instance touching the Sun, which would destroy it
CollisionEvents ==
    { ev \in [target : Instances, other : Slots, defect : {"none"}] : ev.other # ev.target }
    \cup { [target |-> t, other |-> SunSlot, defect |-> x] :
             t \in Instances, x \in Defects \ {"none"} }

\* manifold.solverContactPoint(0): a point between the two centres
solverContactPoint(bs, ev) ==
    MultiplyScalar(Add(bs[ev.target].translation, bs[ev.other].translation), 1, 2)

\* discarded without the test of userData
discarded_noUserDataTest(ev) ==
    ev.defect \in {"noManifold", "noTargetRigidBody", "noOtherRigidBody"}

\* lines 473 and 478
discarded(ev) ==
    \/ ev.defect \in {"noManifold", "noTargetRigidBody", "noOtherRigidBody"}
    \/ ev.defect \in {"noTargetUserData", "noOtherUserData"}

targetMassOf(bs, ev) == IF ev.defect = "targetMassZero" THEN 0 ELSE Mass(bs[ev.target])

\* targetDestroyed with >= for >
targetDestroyed_orEqual(otherMass, targetMass) == otherMass >= targetMass /\ targetMass > 0

\* targetDestroyed for any two unequal masses
targetDestroyed_unequal(otherMass, targetMass) == otherMass # targetMass /\ targetMass > 0

\* targetDestroyed with the comparison turned round
targetDestroyed_swapped(otherMass, targetMass) == otherMass < targetMass /\ targetMass > 0

\* targetDestroyed without the comparison of the masses
targetDestroyed_always(otherMass, targetMass) == targetMass > 0

\* line 483
targetDestroyed(otherMass, targetMass) == otherMass > targetMass /\ targetMass > 0

\* combinedVelocity without the weights
combinedVelocity_unweighted(targetVelocity, targetMass, otherVelocity, otherMass) ==
    MultiplyScalar(Add(targetVelocity, otherVelocity), 1, 2)

\* lines 499-503
combinedVelocity(targetVelocity, targetMass, otherVelocity, otherMass) ==
    MultiplyScalar(Add(MultiplyScalar(targetVelocity, targetMass, 1),
                       MultiplyScalar(otherVelocity, otherMass, 1)),
                   1, targetMass + otherMass)

\* survivor without the test of the type
survivor_anyType(otherRigidBody, velocity) == [otherRigidBody EXCEPT !.linvel = velocity]

\* lines 505-508
survivor(otherRigidBody, velocity) ==
    IF otherRigidBody.type \in validDynamicTypes
    THEN [otherRigidBody EXCEPT !.linvel = velocity]
    ELSE otherRigidBody

\* collisionExplosions with the second explosion for a destroyed Moon
collisionExplosions_always(prev, otherRigidBody, collisionPoint, targetPosition, otherPosition, d) ==
    triggerExplosion(triggerExplosion(prev, collisionPoint, targetPosition, d.id1),
                     collisionPoint, otherPosition, d.id2)

\* lines 510-514
collisionExplosions(prev, otherRigidBody, collisionPoint, targetPosition, otherPosition, d) ==
    LET first == triggerExplosion(prev, collisionPoint, targetPosition, d.id1) IN
    IF otherRigidBody.type = "Moon"
    THEN triggerExplosion(first, collisionPoint, otherPosition, d.id2)
    ELSE first

\* respawned that also takes the scale of newBodyData
respawned_withScale(targetRigidBody, newBodyData, d) ==
    [targetRigidBody EXCEPT !.key = newBodyData.key,
                            !.translation = newBodyData.position,
                            !.linvel = newBodyData.linearVelocity,
                            !.angvel = <<0, d.spin, 0>>,
                            !.scale = newBodyData.scale]

\* lines 519-523
respawned(targetRigidBody, newBodyData, d) ==
    [targetRigidBody EXCEPT !.key = newBodyData.key,
                            !.translation = newBodyData.position,
                            !.linvel = newBodyData.linearVelocity,
                            !.angvel = <<0, d.spin, 0>>]

\* resolvedBodies that removes the destroyed body and adds none
resolvedBodies_removing(bs, ev, velocity, d) ==
    [ i \in DOMAIN bs \ {ev.target} |->
        IF i = ev.other THEN survivor(bs[i], velocity) ELSE bs[i] ]

\* the bodies after the survivor and the destroyed body were written
resolvedBodies(bs, ev, velocity, d) ==
    LET newBodyData == createBodyData([respawn |-> TRUE, typeOverride |-> "Planet",
                                       scaleOverride |-> 0], d)
    IN [ i \in DOMAIN bs |->
           IF i = ev.target THEN respawned(bs[i], newBodyData, d)
           ELSE IF i = ev.other THEN survivor(bs[i], velocity)
           ELSE bs[i] ]

\* handleCollision: the states it can leave, from the state it finds; an
\* event that is resolved draws the random values of one respawn
handleCollision(bs, exps, trs, ev) ==
    LET unchanged  == [bodies |-> bs, explosions |-> exps, trails |-> trs]
        targetMass == targetMassOf(bs, ev)
        otherMass  == Mass(bs[ev.other])
    IN IF discarded(ev) THEN {unchanged}
       ELSE IF ~targetDestroyed(otherMass, targetMass) THEN {unchanged}
       ELSE IF ev.defect = "noContactPoint" THEN {unchanged}
       ELSE { [ bodies |->
                  resolvedBodies(bs, ev,
                      combinedVelocity(bs[ev.target].linvel, targetMass,
                                       bs[ev.other].linvel, otherMass), d),
                explosions |->
                  collisionExplosions(exps, bs[ev.other], solverContactPoint(bs, ev),
                                      bs[ev.target].translation, bs[ev.other].translation, d),
                trails |-> clearTrail(trs, bs[ev.target].key) ]
              : d \in RespawnDraws }

\* what an event is, from the event and the masses alone
EventKind(bs, ev) ==
    IF ev.defect # "none" THEN "malformed"
    ELSE IF Mass(bs[ev.other]) > Mass(bs[ev.target]) THEN "otherHeavier"
    ELSE IF Mass(bs[ev.other]) = Mass(bs[ev.target]) THEN "equal"
    ELSE "targetHeavier"

Snapshot(bs, exps, trs) == [bodies |-> bs, explosions |-> exps, trails |-> trs]

\* the events whose bodies `last` names: those between bodies of unequal
\* mass and the well-formed ones with the Sun
Recorded(kind, ev) ==
    kind \in {"otherHeavier", "targetHeavier"} \/ (ev.defect = "none" /\ ev.other = SunSlot)

\* ---------------------------------------------------------------- actions
\* the useFrame callback of Planets, first in a frame: one trail point per
\* instance
UseFrame ==
    /\ pc \in {"frame", "events"}
    /\ frames < MaxFrames
    /\ trails' = recordTrails(bodies, trails, 1)
    /\ pc' = "physics"
    /\ frames' = frames + 1
    /\ last' = NoLast
    /\ UNCHANGED <<bodies, explosions, respawns>>

\* one physics step: the gravity pass, then the engine moves the bodies
PhysicsStep ==
    /\ pc = "physics"
    /\ bodies' = integrate(useGravity(bodies))
    /\ pc' = "events"
    /\ UNCHANGED <<explosions, trails, frames, respawns, last>>

\* the engine reports one collision of this step to onCollisionEnter; a
\* run follows the events until MaxRespawns of them were resolved (an event
\* that changed nothing is the last one followed in a step: the events
\* after it find the state it found)
Collide ==
    /\ pc = "events"
    /\ respawns < MaxRespawns
    /\ last.kind \in {"none", "otherHeavier"}
    /\ \E ev \in CollisionEvents :
         /\ \E after \in handleCollision(bodies, explosions, trails, ev) :
              LET before == Snapshot(bodies, explosions, trails)
                  kind   == EventKind(bodies, ev)
              IN /\ bodies' = after.bodies
                 /\ explosions' = after.explosions
                 /\ trails' = after.trails
                 /\ respawns' = IF after # before THEN respawns + 1 ELSE respawns
                 /\ last' = [ kind   |-> kind,
                              target |-> IF Recorded(kind, ev) THEN ev.target ELSE NoSlot,
                              other  |-> IF Recorded(kind, ev) THEN ev.other ELSE NoSlot,
                              pre    |-> before ]
    /\ UNCHANGED <<pc, frames>>

\* a contact of two instances is reported to the handler of either: after
\* the event (target, other) handled last, the event (other, target) of the
\* same contact.  Afterwards `last` names the contact as a whole: the
\* lighter body as target, the heavier as other, the state before the first
\* of the two events, and which of the two events came first
CollideMirror ==
    /\ pc = "events"
    /\ last.kind \in {"otherHeavier", "targetHeavier"}
    /\ last.target \in Instances
    /\ last.other \in Instances
    /\ LET ev == [target |-> last.other, other |-> last.target, defect |-> "none"] IN
       \E after \in handleCollision(bodies, explosions, trails, ev) :
           /\ bodies' = after.bodies
           /\ explosions' = after.explosions
           /\ trails' = after.trails
           /\ respawns' = IF after # Snapshot(bodies, explosions, trails)
                          THEN respawns + 1 ELSE respawns
           /\ last' = IF last.kind = "otherHeavier"
                      THEN [last EXCEPT !.kind = "lighterFirst"]
                      ELSE [ kind   |-> "heavierFirst",
                             target |-> last.other,
                             other  |-> last.target,
                             pre    |-> last.pre ]
    /\ UNCHANGED <<pc, frames>>

\* an explosion has faded: onComplete of <Explosion>, called from its
\* useFrame callback
ExplosionComplete ==
    /\ pc = "physics"
    /\ \E n \in 1 .. Len(explosions) :
         explosions' = handleExplosionComplete(explosions, explosions[n].id)
    /\ UNCHANGED <<bodies, trails, pc, frames, respawns, last>>

Next == UseFrame \/ PhysicsStep \/ Collide \/ CollideMirror \/ ExplosionComplete

Spec == Init /\ [][Next]_vars

\* ------------------------------------------------- the trail store alone
\* The two callbacks of TrailProvider, called in any order on a store that
\* holds what a long run leaves: trails one point short of the limit or at
\* the limit.  Here frames counts the calls of addTrailPoint and respawns
\* those of clearTrail.

\* the trail of a body that moved two units along x in every frame
LongTrail(n) == [ j \in 1 .. n |-> <<2 * j, 0, 0>> ]

TrailKeys == {1, 2}

\* positions passed to addTrailPoint: far from the end of a long trail, and
\* two that are one unit apart
TrailPoints ==
    { <<0, 0, 0>>, <<2 * TrailLimit + 100, 0, 0>>, <<2 * TrailLimit + 101, 0, 0>> }

TrailInit ==
    /\ bodies = [ i \in Slots |->
                    IF i = SunSlot THEN Sun
                    ELSE InstanceBody(initialInstances(0)[i], InitialDraw(i, 0).spin) ]
    /\ explosions = <<>>
    /\ \E held \in SUBSET TrailKeys : \E n \in {TrailLimit - 1, TrailLimit} :
         trails = [ k \in held |-> LongTrail(n) ]
    /\ pc = "trails"
    /\ frames = 0
    /\ respawns = 0
    /\ last = NoLast

AddTrailPoint ==
    /\ pc = "trails"
    /\ frames < MaxFrames
    /\ \E key \in TrailKeys, position \in TrailPoints :
         trails' = addTrailPoint(trails, key, position)
    /\ frames' = frames + 1
    /\ last' = [ kind |-> "addTrailPoint", target |-> NoSlot, other |-> NoSlot,
                 pre |-> Snapshot(bodies, explosions, trails) ]
    /\ UNCHANGED <<bodies, explosions, pc, respawns>>

ClearTrail ==
    /\ pc = "trails"
    /\ respawns < MaxRespawns
    /\ \E key \in TrailKeys : trails' = clearTrail(trails, key)
    /\ respawns' = respawns + 1
    /\ last' = [ kind |-> "clearTrail", target |-> NoSlot, other |-> NoSlot,
                 pre |-> Snapshot(bodies, explosions, trails) ]
    /\ UNCHANGED <<bodies, explosions, pc, frames>>

TrailNext == AddTrailPoint \/ ClearTrail

TrailSpec == TrailInit /\ [][TrailNext]_vars

\* ------------------------------------------------------------ properties
Now == Snapshot(bodies, explosions, trails)

\* the last event was resolved: its target was destroyed
Resolved == last.kind = "otherHeavier"

\* what the respawns write: the key, position, velocity and spin of one
\* createBodyData({respawn: true}) call, for every draw
RespawnStates ==
    { LET data == createBodyData([respawn |-> TRUE, typeOverride |-> "Planet",
                                  scaleOverride |-> 0], d)
      IN [ key |-> data.key, translation |-> data.position,
           linvel |-> data.linearVelocity, angvel |-> <<0, d.spin, 0>> ]
      : d \in RespawnDraws }

\* b holds what one respawn writes
IsRespawnState(b) ==
    [ key |-> b.key, translation |-> b.translation,
      linvel |-> b.linvel, angvel |-> b.angvel ] \in RespawnStates

\* C1: the number of bodies (the Sun and the Count instances) is the same in
\* every reachable state; the handling of a collision leaves the set of
\* slots as it found it, the destroyed body is replaced in its own slot
C1_BodyCount ==
    /\ Cardinality(DOMAIN bodies) = Count + 1
    /\ last.kind # "none" => DOMAIN bodies = DOMAIN last.pre.bodies
    /\ Resolved => last.target \in DOMAIN bodies /\ IsRespawnState(bodies[last.target])

C1_Witness ==
    /\ Resolved
    /\ respawns = 1
    /\ Cardinality(DOMAIN bodies) = Cardinality(DOMAIN last.pre.bodies)
    /\ bodies[last.target] # last.pre.bodies[last.target]

\* C2: an event whose other body is heavier than its target never respawns
\* the other body (its key, position and spin stay) and respawns the target;
\* an event between bodies of equal mass changes nothing
C2_HeavierSurvives ==
    /\ Resolved =>
         /\ bodies[last.other].key = last.pre.bodies[last.other].key
         /\ bodies[last.other].translation = last.pre.bodies[last.other].translation
         /\ bodies[last.other].angvel = last.pre.bodies[last.other].angvel
         /\ IsRespawnState(bodies[last.target])
    /\ last.kind = "equal" => Now = last.pre

C2_Witness ==
    /\ last.kind = "equal"
    /\ \E i, j \in Instances : i # j /\ Mass(bodies[i]) = Mass(bodies[j])
    /\ DOMAIN trails # {}
    /\ Now = last.pre

\* C3: after a collision whose surviving body is not the Sun, the velocity
\* of the survivor is (m1*v1 + m2*v2)/(m1 + m2) of the masses and the
\* velocities before the collision, to the last digit velocities are held to
C3_Momentum ==
    Resolved /\ last.other # SunSlot =>
        LET t  == last.pre.bodies[last.target]
            o  == last.pre.bodies[last.other]
            m  == Mass(t) + Mass(o)
            v  == bodies[last.other].linvel
        IN \A i \in 1 .. 3 :
             LET momentum == Mass(t) * t.linvel[i] + Mass(o) * o.linvel[i]
             IN m * v[i] <= momentum /\ momentum < m * (v[i] + 1)

C3_Witness ==
    /\ Resolved
    /\ last.other # SunSlot
    /\ bodies[last.other].linvel # last.pre.bodies[last.other].linvel
    /\ last.pre.bodies[last.target].linvel # Zero3

\* C4 (as claimed): after a body was respawned its type tag is Planet
C4_RespawnedIsPlanet == Resolved => bodies[last.target].type = "Planet"

\* C5 (as claimed): a respawned body has a key other than the one it had,
\* and no two instances have one key
C5_FreshIdentity ==
    /\ Resolved => bodies[last.target].key # last.pre.bodies[last.target].key
    /\ \A i, j \in Instances : i # j => bodies[i].key # bodies[j].key

\* C6: an instance that collides with the Sun is respawned: it holds the
\* key, position, velocity and spin of a respawn, and an explosion was added
C6_SunDestroys ==
    last.kind \in {"otherHeavier", "equal", "targetHeavier"} /\ last.other = SunSlot =>
        /\ IsRespawnState(bodies[last.target])
        /\ Len(explosions) > Len(last.pre.explosions)

C6_Witness ==
    /\ Resolved
    /\ last.other = SunSlot
    /\ last.pre.bodies[last.target].type = "Moon"
    /\ bodies[last.target].translation # last.pre.bodies[last.target].translation

\* C7: the Sun is at the origin, at rest and of one mass in every reachable
\* state, after the gravity pass and after any collision
C7_SunFixed ==
    /\ bodies[SunSlot].translation = Zero3
    /\ bodies[SunSlot].linvel = Zero3
    /\ Mass(bodies[SunSlot]) = SUN_RADIUS * SUN_RADIUS * SUN_RADIUS

C7_Witness ==
    /\ Resolved
    /\ last.other = SunSlot
    /\ last.pre.bodies[last.target].linvel # Zero3
    /\ frames = MaxFrames
    /\ bodies[SunSlot].linvel = Zero3

\* C8: a resolved collision adds one explosion that looks at the place of
\* the destroyed body and, exactly when the survivor has the type Moon, one
\* more that looks at the place of the Moon; any other event adds none
C8_Explosions ==
    /\ Resolved =>
         LET t     == last.pre.bodies[last.target]
             o     == last.pre.bodies[last.other]
             n     == Len(last.pre.explosions)
             added == IF o.type = "Moon" THEN 2 ELSE 1
         IN /\ Len(explosions) = n + added
            /\ SubSeq(explosions, 1, n) = last.pre.explosions
            /\ explosions[n + 1].lookAt = t.translation
            /\ o.type = "Moon" => explosions[n + 2].lookAt = o.translation
    /\ last.kind \in {"malformed", "equal", "targetHeavier"} =>
         explosions = last.pre.explosions

C8_Witness ==
    /\ Resolved
    /\ last.pre.bodies[last.other].type = "Moon"
    /\ Len(explosions) = Len(last.pre.explosions) + 2

\* C9: every body, the Sun and every instance, respawned or not, has a
\* mass above 0 in every reachable state
C9_MassPositive == \A i \in DOMAIN bodies : Mass(bodies[i]) > 0

C9_Witness ==
    /\ Resolved
    /\ IsRespawnState(bodies[last.target])
    /\ Mass(bodies[last.target]) > 0
    /\ Mass(bodies[last.target]) < Mass(bodies[SunSlot])

\* C10: a malformed event is discarded: bodies, explosions and trails are
\* after it what they were before it
C10_MalformedDiscarded == last.kind = "malformed" => Now = last.pre

C10_Witness ==
    /\ last.kind = "malformed"
    /\ DOMAIN trails # {}
    /\ Now = last.pre

\* C11: in the gravity pass of a physics step a pair of bodies in one
\* place adds no impulse: the inner loop leaves the pair and goes on with
\* the next body, and no velocity the pass leaves is not a number
C11_ZeroDistanceSkipped ==
    pc = "physics" =>
        /\ \A c \in Instances, o \in Slots :
             c # o /\ bodies[c].translation = bodies[o].translation =>
                /\ pairImpulse(bodies, c, o) = Zero3
                /\ impulseSum(bodies, c, o) = impulseSum(bodies, c, o + 1)
        /\ \A i \in Slots :
             LET velocity == useGravity(bodies)[i].linvel
             IN velocity[1] # NaN /\ velocity[2] # NaN /\ velocity[3] # NaN

\* the second physics step of a run is due, with two moving instances in
\* one place (bodies created in one place have one velocity and stay
\* together)
C11_Witness ==
    /\ pc = "physics"
    /\ frames = 2
    /\ \E c, o \in Instances :
         /\ c # o
         /\ bodies[c].translation = bodies[o].translation
         /\ ~otherBodySkipped(bodies[c], bodies[o])
         /\ Mass(bodies[c]) > 0
         /\ useGravity(bodies)[c].linvel = bodies[c].linvel

\* C12: no trail holds more than 300 points, whatever calls of addTrailPoint
\* and clearTrail were made; a call of addTrailPoint that changes a trail of
\* 300 points leaves its points 2 .. 300 in their order, followed by the
\* new point
C12_TrailCapped ==
    /\ \A k \in DOMAIN trails : Len(trails[k]) <= TrailLimit
    /\ last.kind = "addTrailPoint" =>
         \A k \in DOMAIN last.pre.trails :
            Len(last.pre.trails[k]) = TrailLimit /\ trails[k] # last.pre.trails[k] =>
               /\ Len(trails[k]) = TrailLimit
               /\ SubSeq(trails[k], 1, TrailLimit - 1) = Tail(last.pre.trails[k])
               /\ trails[k][TrailLimit] \in TrailPoints

C12_Witness ==
    /\ last.kind = "addTrailPoint"
    /\ \E k \in DOMAIN last.pre.trails :
         /\ last.pre.trails[k] = LongTrail(TrailLimit)
         /\ Len(trails[k]) = TrailLimit
         /\ trails[k][1] = LongTrail(TrailLimit)[2]
         /\ trails[k][TrailLimit] = <<0, 0, 0>>

\* the square of the distance of a point from the vertical axis through
\* the origin
HorizontalSq(p) == p[1] * p[1] + p[3] * p[3]

\* the velocity of a respawn at a position: 0.75 of the orbital velocity
IsRespawnVelocity(b) ==
    b.linvel = MultiplyScalar(calculateInitialVelocity(b.translation, FALSE), 3, 4)

\* C13 (as claimed): a respawned body is at a horizontal distance in
\* [SUN_RADIUS*3, SUN_RADIUS*3 + SPAWN_RADIUS) from the axis, the range of
\* the initial bodies, and has 0.75 of the orbital velocity there
C13_RespawnInSpawnRange ==
    Resolved =>
        /\ HorizontalSq(bodies[last.target].translation) >= (SUN_RADIUS * 3) * (SUN_RADIUS * 3)
        /\ HorizontalSq(bodies[last.target].translation)
              < (SUN_RADIUS * 3 + SPAWN_RADIUS) * (SUN_RADIUS * 3 + SPAWN_RADIUS)
        /\ IsRespawnVelocity(bodies[last.target])

\* C13 (amended): a respawned body is at the entry radius SPAWN_RADIUS*1.5
\* from the axis, at a height in [0, 10), and has 0.75 of the orbital
\* velocity there
C13_RespawnAtEntryRadius ==
    Resolved =>
        /\ 4 * HorizontalSq(bodies[last.target].translation)
              = (SPAWN_RADIUS * 3) * (SPAWN_RADIUS * 3)
        /\ bodies[last.target].translation[2] \in 0 .. 9
        /\ IsRespawnVelocity(bodies[last.target])

C13_Witness ==
    /\ Resolved
    /\ HorizontalSq(last.pre.bodies[last.target].translation)
          < (SUN_RADIUS * 3 + SPAWN_RADIUS) * (SUN_RADIUS * 3 + SPAWN_RADIUS)
    /\ 4 * HorizontalSq(bodies[last.target].translation)
          = (SPAWN_RADIUS * 3) * (SPAWN_RADIUS * 3)
    /\ bodies[last.target].linvel # Zero3

\* C14 (as claimed): in the gravity pass of a physics step every dynamic instance of mass
\* above 0 that is not in the place of the Sun gets an impulse for the
\* pair (instance, Sun), and the Sun gets none
C14_SunAttracts ==
    pc = "physics" =>
        /\ \A i \in Instances :
             /\ isDynamic(bodies[i])
             /\ Mass(bodies[i]) > 0
             /\ bodies[i].translation # bodies[SunSlot].translation
             => SunSlot \in impulseSources(bodies, i)
        /\ impulseSources(bodies, SunSlot) = {}

\* C15 (as claimed): in the gravity pass of a physics step, for every ordered pair (a, b) of
\* distinct bodies that are dynamic, not asleep, of mass above 0 and not in
\* one place, a gets the impulse of the pair (a, b); the velocity of a body
\* after the pass is its velocity before it plus the impulses of its pairs
C15_EveryOrderedPair ==
    pc = "physics" =>
    \A a, b \in Slots :
        /\ a # b
        /\ isDynamic(bodies[a]) /\ isDynamic(bodies[b])
        /\ ~isSleeping(bodies[a]) /\ ~isSleeping(bodies[b])
        /\ Mass(bodies[a]) > 0 /\ Mass(bodies[b]) > 0
        /\ bodies[a].translation # bodies[b].translation
        => /\ b \in impulseSources(bodies, a)
           /\ useGravity(bodies)[a] = applyImpulse(bodies[a], impulseSum(bodies, a, 0))

\* C16 (as claimed): once a body was respawned there is no trail under the
\* key it had: none right after the collision, and none after the trail
\* points of the next frame were recorded
C16_PriorTrailGone ==
    [][ Resolved =>
          /\ last.pre.bodies[last.target].key \notin DOMAIN trails
          /\ last.pre.bodies[last.target].key \notin DOMAIN trails' ]_vars

\* C17 (as claimed): an event whose target is heavier than its other body
\* respawns the other body and gives the target the combined velocity
C17_LighterDestroyed ==
    last.kind = "targetHeavier" =>
        /\ IsRespawnState(bodies[last.other])
        /\ bodies[last.target].linvel =
              combinedVelocity(last.pre.bodies[last.target].linvel,
                               Mass(last.pre.bodies[last.target]),
                               last.pre.bodies[last.other].linvel,
                               Mass(last.pre.bodies[last.other]))

\* C17 (amended): the body an event destroys is its target, and only when
\* the other body is heavier; an event whose target is heavier than its
\* other body changes nothing, the other body keeps its key and its place
C17_OnlyTargetDestroyed ==
    /\ last.kind = "targetHeavier" =>
         /\ Now = last.pre
         /\ bodies[last.other].key = last.pre.bodies[last.other].key
    /\ Resolved =>
         /\ Mass(last.pre.bodies[last.target]) < Mass(last.pre.bodies[last.other])
         /\ IsRespawnState(bodies[last.target])

C17_Witness ==
    /\ last.kind = "targetHeavier"
    /\ last.target \in Instances /\ last.other \in Instances
    /\ Mass(bodies[last.target]) > Mass(bodies[last.other])
    /\ Mass(bodies[last.other]) > 0
    /\ DOMAIN trails # {}
    /\ Now = last.pre

\* the body of slot i as it was created, in the sample s of the draws
CreatedBody(i, s) ==
    IF i = SunSlot THEN Sun
    ELSE InstanceBody(initialInstances(s)[i], InitialDraw(i, s).spin)

\* the scales and the masses of the bodies as they were created, slot by
\* slot, one function for each sample of the draws
CreatedScales == { [ i \in Slots |-> CreatedBody(i, s).scale ] : s \in InitSamples }

CreatedMasses == { [ i \in Slots |-> Mass(CreatedBody(i, s)) ] : s \in InitSamples }

\* C18: a resolved collision writes the velocity of the surviving body and
\* the key, position, velocity and spin of the destroyed one, and nothing
\* else of any body; every body has in every reachable state the scale and
\* the mass it was created with, so two slots compare as they did at first
C18_OnlyWrites ==
    /\ [ i \in Slots |-> bodies[i].scale ] \in CreatedScales
    /\ [ i \in Slots |-> Mass(bodies[i]) ] \in CreatedMasses
    /\ \A i, j \in Slots :
         last.kind # "none" =>
            (Mass(bodies[i]) < Mass(bodies[j])
               <=> Mass(last.pre.bodies[i]) < Mass(last.pre.bodies[j]))
    /\ Resolved =>
         \A i \in Slots :
            LET was == last.pre.bodies[i] IN
            /\ i \notin {last.target, last.other} => bodies[i] = was
            /\ i = last.other => bodies[i] = [was EXCEPT !.linvel = bodies[i].linvel]
            /\ i = last.target =>
                 bodies[i] = [was EXCEPT !.key = bodies[i].key,
                                         !.translation = bodies[i].translation,
                                         !.linvel = bodies[i].linvel,
                                         !.angvel = bodies[i].angvel]

C18_Witness ==
    /\ Resolved
    /\ last.other # SunSlot
    /\ last.pre.bodies[last.target].scale = EarthScale
    /\ bodies[last.target].scale = EarthScale
    /\ bodies[last.target].translation # last.pre.bodies[last.target].translation
    /\ bodies[last.other].linvel # last.pre.bodies[last.other].linvel

\* both events of one contact of two instances of unequal mass were handled
BothHandled == last.kind \in {"lighterFirst", "heavierFirst"}

\* C19: when both events of one contact of two instances of unequal mass
\* were handled, in either order, the lighter body was respawned once (the
\* explosions added are those of one resolution), the heavier body was not
\* respawned, and the heavier body has the combined velocity of the two
\* bodies as they were before the first event: one outcome for both orders
C19_BothOrders ==
    BothHandled =>
        LET lighter == last.pre.bodies[last.target]
            heavier == last.pre.bodies[last.other]
            n       == Len(last.pre.explosions)
        IN /\ Mass(lighter) < Mass(heavier)
           /\ IsRespawnState(bodies[last.target])
           /\ Len(explosions) = n + (IF heavier.type = "Moon" THEN 2 ELSE 1)
           /\ explosions[n + 1].lookAt = lighter.translation
           /\ bodies[last.other] =
                 [heavier EXCEPT !.linvel =
                     combinedVelocity(lighter.linvel, Mass(lighter),
                                      heavier.linvel, Mass(heavier))]
           /\ lighter.key \notin DOMAIN trails

C19_Witness ==
    /\ last.kind = "heavierFirst"
    /\ last.pre.bodies[last.other].type = "Moon"
    /\ last.pre.bodies[last.target].type = "Earth"
    /\ IsRespawnState(bodies[last.target])
    /\ bodies[last.other].key = last.pre.bodies[last.other].key
    /\ bodies[last.other].linvel # last.pre.bodies[last.other].linvel
    /\ Len(explosions) = Len(last.pre.explosions) + 2

====
